---------------------------- MODULE Spec2Model ----------------------------
(***************************************************************************)
(* Model of kits19cnn/io/dataset_onthefly.py: SliceDatasetOnTheFly and     *)
(* PseudoSliceDatasetOnTheFly.  A dataset object is constructed once and   *)
(* then answers __getitem__ / get_slice_idx calls; every call draws a      *)
(* class and a slice index at random and reads .npy files of the case      *)
(* directory.                                                              *)
(*                                                                         *)
(* Conventions of the model:                                               *)
(*  - a Python dict is a sequence of [k, v] pairs in insertion order;      *)
(*  - a probability is an integer number of 1/ProbSteps;                   *)
(*  - a 2D array saved on disk is [shape, px] with px the tag of the slice *)
(*    it was saved from; a channels-last array is [shape, ch] with ch the  *)
(*    sequence of its channels;                                            *)
(*  - a call either returns or raises: err = "none" or the exception.      *)
(***************************************************************************)
EXTENDS Integers, Sequences, FiniteSets, TLC

VARIABLES
    disk,                   \* the .npy files below in_dir: set of [path, data]
    pc,                     \* "new" | "ready" | "failed"
    ctorErr,                \* exception raised by __init__ ("none" if none)
    variant,                \* "single" (SliceDatasetOnTheFly) | "pseudo"
    im_ids,                 \* self.im_ids
    pos_slice_dict,         \* self.pos_slice_dict
    sampling_distribution,  \* self.sampling_distribution
    classes,                \* self.classes
    num_pseudo_slices,      \* self.num_pseudo_slices
    last                    \* outcome of the last call on the dataset

vars == <<disk, pc, ctorErr, variant, im_ids, pos_slice_dict,
          sampling_distribution, classes, num_pseudo_slices, last>>

---------------------------------------------------------------------------
(* Bounds of the model                                                     *)

\* highest slice index the preprocessing saved in a case directory
MaxSlice == 3
\* largest num_pseudo_slices tried
MaxWindow == 5
\* probabilities are multiples of 1/ProbSteps
ProbSteps == 2
\* longest im_ids tried
MaxIds == 2

---------------------------------------------------------------------------
(* Python dicts and sequences                                              *)

Range(s) == {s[i] : i \in DOMAIN s}

HasKey(d, key) == \E i \in DOMAIN d : d[i].k = key

DictGet(d, key) == d[CHOOSE i \in DOMAIN d : d[i].k = key].v

DictKeys(d) == [i \in DOMAIN d |-> d[i].k]

RECURSIVE SeqSum(_)
SeqSum(s) == IF s = <<>> THEN 0 ELSE s[1] + SeqSum(Tail(s))

\* Python's a % b for b > 0 : the result has the sign of the divisor
PyMod(a, b) == a % b

\* Python's a // b for b > 0 : floor division
PyFloorDiv(a, b) == a \div b

---------------------------------------------------------------------------
(* parse_slice_idx_to_str (kits19cnn/io/preprocess.py, not part of the     *)
(* sources at hand): the fixed-width zero-padded decimal string of the     *)
(* slice index, f"{slice_idx:03}".  A negative index takes a leading "-"   *)
(* inside the same width.                                                  *)

StrWidth == 3

DigitChars == <<"0", "1", "2", "3", "4", "5", "6", "7", "8", "9">>

RECURSIVE Digits(_)
Digits(n) ==
    IF n < 10 THEN <<DigitChars[n + 1]>>
    ELSE Digits(n \div 10) \o <<DigitChars[(n % 10) + 1]>>

RECURSIVE ZeroPad(_, _)
ZeroPad(s, w) == IF Len(s) >= w THEN s ELSE ZeroPad(<<"0">> \o s, w)

parse_slice_idx_to_str(slice_idx) ==
    IF slice_idx >= 0 THEN ZeroPad(Digits(slice_idx), StrWidth)
    ELSE <<"-">> \o ZeroPad(Digits(0 - slice_idx), StrWidth - 1)

---------------------------------------------------------------------------
(* Storage: what io.Preprocessor.save_dir_as_2d() left below in_dir        *)

Shape2D == <<2, 2>>

\* join(join(in_dir, case_raw), f"{base}_{slice_idx_str}.npy")
FilePath(case_raw, base, slice_idx_str) ==
    [dir |-> case_raw, base |-> base, idx |-> slice_idx_str]

\* the 2D array saved for slice n of a case
SavedArray(case_raw, base, n) ==
    [shape |-> Shape2D, px |-> [case |-> case_raw, base |-> base, n |-> n]]

SavedFile(case_raw, base, n) ==
    [path |-> FilePath(case_raw, base, parse_slice_idx_to_str(n)),
     data |-> SavedArray(case_raw, base, n)]

ZeroPx == [case |-> "", base |-> "zeros", n |-> 0]

isfile(path) == \E f \in disk : f.path = path

\* np.load(path) of an existing file
np_load(path) == (CHOOSE f \in disk : f.path = path).data

\* arr[:, :, None]
AddChannel(arr) == [shape |-> arr.shape \o <<1>>, ch |-> <<arr.px>>]

\* np.zeros(shape2d + (n,))
np_zeros(shape2d, n) == [shape |-> shape2d \o <<n>>, ch |-> [k \in 1..n |-> ZeroPx]]

NoArray == [shape |-> <<>>, ch |-> <<>>]

---------------------------------------------------------------------------
(* numpy.random.choice, as the two call sites of get_slice_idx use it: the *)
(* outcome is an exception or the set of values the call can return        *)

\* np.random.choice(a, p=p): a and p must have the same size, p must be
\* non-negative and sum to 1; an entry of probability 0 is never returned
ChoiceWithP(a, p) ==
    IF Len(a) = 0 THEN [err |-> "ValueError(a empty)", out |-> {}]
    ELSE IF Len(p) # Len(a) THEN [err |-> "ValueError(a and p size)", out |-> {}]
    ELSE IF \E i \in DOMAIN p : p[i] < 0
        THEN [err |-> "ValueError(p negative)", out |-> {}]
    ELSE IF SeqSum(p) # ProbSteps THEN [err |-> "ValueError(p sum)", out |-> {}]
    ELSE [err |-> "none", out |-> {a[i] : i \in {j \in DOMAIN a : p[j] > 0}}]

\* np.random.choice(a): uniform over a, which must be non-empty
ChoiceUniform(a) ==
    IF Len(a) = 0 THEN [err |-> "ValueError(a empty)", out |-> {}]
    ELSE [err |-> "none", out |-> Range(a)]

---------------------------------------------------------------------------
(* SliceDatasetOnTheFly.get_slice_idx / get_slice_idx_str                  *)

NoDraw(e) == [err |-> e, cls |-> "", idx |-> 0, drawn |-> FALSE]

\* line 132-134 for one sampled class
SliceIdxForClass(case_raw, sampled_class) ==
    IF ~HasKey(pos_slice_dict, case_raw)
        THEN {[NoDraw("KeyError(case)") EXCEPT !.cls = sampled_class]}
    ELSE IF ~HasKey(DictGet(pos_slice_dict, case_raw), sampled_class)
        THEN {[NoDraw("KeyError(class)") EXCEPT !.cls = sampled_class]}
    ELSE LET slice_indices == DictGet(DictGet(pos_slice_dict, case_raw), sampled_class)
             pick == ChoiceUniform(slice_indices)
         IN  IF pick.err # "none"
                 THEN {[NoDraw(pick.err) EXCEPT !.cls = sampled_class]}
             ELSE {[err |-> "none", cls |-> sampled_class, idx |-> rand_idx,
                    drawn |-> TRUE] : rand_idx \in pick.out}

\* variant of get_slice_idx that leaves out p=self.sampling_distribution
get_slice_idx_WithoutP(case_raw) ==
    LET sampled == ChoiceUniform(classes)
    IN  IF sampled.err # "none" THEN {NoDraw(sampled.err)}
        ELSE UNION {SliceIdxForClass(case_raw, c) : c \in sampled.out}

\* every outcome of get_slice_idx(case_raw)
get_slice_idx(case_raw) ==
    LET sampled == ChoiceWithP(classes, sampling_distribution)
    IN  IF sampled.err # "none" THEN {NoDraw(sampled.err)}
        ELSE UNION {SliceIdxForClass(case_raw, c) : c \in sampled.out}

---------------------------------------------------------------------------
(* load_slices of the two classes, for a drawn slice index                 *)

LoadResult(e, r, x, y, loads, probes) ==
    [err |-> e, ret |-> r, x |-> x, y |-> y, loads |-> loads, probes |-> probes]

\* variant of SingleLoad that builds y_path with the "imaging" prefix
SingleLoadMaskFromImage(case_raw, slice_idx) ==
    LET s == parse_slice_idx_to_str(slice_idx)
        x_path == FilePath(case_raw, "imaging", s)
    IN  IF ~isfile(x_path)
            THEN LoadResult("FileNotFoundError", "raise", NoArray, NoArray,
                            <<x_path>>, <<>>)
        ELSE LoadResult("none", "pair", AddChannel(np_load(x_path)),
                        AddChannel(np_load(x_path)), <<x_path, x_path>>, <<>>)

\* SliceDatasetOnTheFly.load_slices, lines 99-102
SingleLoad(case_raw, slice_idx) ==
    LET s == parse_slice_idx_to_str(slice_idx)
        x_path == FilePath(case_raw, "imaging", s)
        y_path == FilePath(case_raw, "segmentation", s)
    IN  IF ~isfile(x_path)
            THEN LoadResult("FileNotFoundError", "raise", NoArray, NoArray,
                            <<x_path>>, <<>>)
        ELSE IF ~isfile(y_path)
            THEN LoadResult("FileNotFoundError", "raise", NoArray, NoArray,
                            <<x_path, y_path>>, <<>>)
        ELSE LoadResult("none", "pair", AddChannel(np_load(x_path)),
                        AddChannel(np_load(y_path)), <<x_path, y_path>>, <<>>)

\* variant of WindowMin that starts the window one slice late
WindowMinShifted(center, n) == center - PyFloorDiv(n - 1, 2) + 1

\* lines 196-197
WindowMin(center, n) == center - PyFloorDiv(n - 1, 2)

WindowMax(center, n) == center + PyFloorDiv(n - 1, 2) + 1

\* lines 209-210: the path probed for position idx of the window
NeighbourPath(case_raw, center, n, idx) ==
    FilePath(case_raw, "imaging",
             parse_slice_idx_to_str(WindowMin(center, n) + idx))

\* lines 208-213: channel idx (0-based) of x_arr after the loop
WindowChannel(case_raw, center, n, idx) ==
    LET x_path == NeighbourPath(case_raw, center, n, idx)
    IN  IF isfile(x_path) THEN np_load(x_path).px ELSE ZeroPx

\* variant of CenterLoad that treats a missing center file like a missing
\* neighbour: an all-zero array
CenterLoadLenient(case_raw, center) ==
    LET s == parse_slice_idx_to_str(center)
        x_path == FilePath(case_raw, "imaging", s)
        y_path == FilePath(case_raw, "segmentation", s)
        zero == [shape |-> Shape2D \o <<1>>, ch |-> <<ZeroPx>>]
    IN  LoadResult("none", "pair",
                   IF isfile(x_path) THEN AddChannel(np_load(x_path)) ELSE zero,
                   IF isfile(y_path) THEN AddChannel(np_load(y_path)) ELSE zero,
                   SelectSeq(<<x_path, y_path>>, isfile), <<x_path, y_path>>)

\* variant of CenterLoad that reads the mask of the slice after the center
CenterLoadNextMask(case_raw, center) ==
    LET s == parse_slice_idx_to_str(center)
        x_path == FilePath(case_raw, "imaging", s)
        y_path == FilePath(case_raw, "segmentation",
                           parse_slice_idx_to_str(center + 1))
    IN  IF ~isfile(x_path)
            THEN LoadResult("FileNotFoundError", "raise", NoArray, NoArray,
                            <<x_path>>, <<>>)
        ELSE IF ~isfile(y_path)
            THEN LoadResult("FileNotFoundError", "raise", NoArray, NoArray,
                            <<x_path, y_path>>, <<>>)
        ELSE LoadResult("none", "pair", AddChannel(np_load(x_path)),
                        AddChannel(np_load(y_path)), <<x_path, y_path>>, <<>>)

\* lines 199-201: the center image and the center mask, both required
CenterLoad(case_raw, center) ==
    LET s == parse_slice_idx_to_str(center)
        x_path == FilePath(case_raw, "imaging", s)
        y_path == FilePath(case_raw, "segmentation", s)
    IN  IF ~isfile(x_path)
            THEN LoadResult("FileNotFoundError", "raise", NoArray, NoArray,
                            <<x_path>>, <<>>)
        ELSE IF ~isfile(y_path)
            THEN LoadResult("FileNotFoundError", "raise", NoArray, NoArray,
                            <<x_path, y_path>>, <<>>)
        ELSE LoadResult("none", "pair", AddChannel(np_load(x_path)),
                        AddChannel(np_load(y_path)), <<x_path, y_path>>, <<>>)

\* lines 203-214, once center_x and center_y are loaded
WindowLoad(case_raw, center, n, c) ==
    LET count == WindowMax(center, n) - WindowMin(center, n)
        probes == [k \in 1..count |-> NeighbourPath(case_raw, center, n, k - 1)]
    IN  IF n = 1 THEN c
        ELSE IF n > 1
            THEN LoadResult("none", "pair",
                     [np_zeros(SubSeq(c.x.shape, 1, 2), n) EXCEPT
                        !.ch = [k \in 1..n |->
                                  WindowChannel(case_raw, center, n, k - 1)]],
                     c.y, c.loads \o SelectSeq(probes, isfile), probes)
        \* neither branch: the function falls off its end and returns None
        ELSE LoadResult("none", "None", NoArray, NoArray, c.loads, <<>>)

\* PseudoSliceDatasetOnTheFly.load_slices, lines 194-214
PseudoLoad(case_raw, center, n) ==
    LET c == CenterLoad(case_raw, center)
    IN  IF c.err # "none" THEN c ELSE WindowLoad(case_raw, center, n, c)

\* self.load_slices(case_raw) once the index is drawn: dispatch on the class
LoadDrawn(case_raw, slice_idx) ==
    IF variant = "single" THEN SingleLoad(case_raw, slice_idx)
    ELSE PseudoLoad(case_raw, slice_idx, num_pseudo_slices)

---------------------------------------------------------------------------
(* Construction                                                            *)

\* log_class_indices: the class labels are the keys of the first entry
log_class_indices(dict) == DictKeys(dict[1].v)

\* variant of BaseInitErr that only rejects a sum above 1
BaseInitErrAtMost(dict, dist) ==
    IF SeqSum(dist) > ProbSteps THEN "AssertionError(sampling_distribution)"
    ELSE IF Len(dict) = 0 THEN "IndexError(list index)"
    ELSE "none"

\* SliceDatasetOnTheFly.__init__, lines 46-48: the exception it raises
BaseInitErr(dict, dist) ==
    IF SeqSum(dist) # ProbSteps THEN "AssertionError(sampling_distribution)"
    ELSE IF Len(dict) = 0 THEN "IndexError(list index)"
    ELSE "none"

\* PseudoSliceDatasetOnTheFly.__init__, lines 172-178: the exception it raises
PseudoInitErr(dict, dist, n) ==
    IF BaseInitErr(dict, dist) # "none" THEN BaseInitErr(dict, dist)
    ELSE IF PyMod(n, 2) # 1 THEN "AssertionError(num_pseudo_slices)"
    ELSE "none"

InitErr(v, dict, dist, n) ==
    IF v = "single" THEN BaseInitErr(dict, dist) ELSE PseudoInitErr(dict, dist, n)

NoCall == [op |-> "none", arg |-> 0, case |-> "", resolved |-> FALSE,
           err |-> "none", cls |-> "", idx |-> 0, drawn |-> FALSE,
           ret |-> "none", x |-> NoArray, y |-> NoArray,
           loads |-> <<>>, probes |-> <<>>, item |-> <<>>]

\* SliceDatasetOnTheFly(...) or PseudoSliceDatasetOnTheFly(..., num_pseudo_slices=n)
\* with transforms=None and preprocessing=None.  The fields keep what __init__
\* had assigned when it raised.
Construct(v, ids, dict, dist, n) ==
    /\ pc = "new"
    /\ variant' = v
    /\ im_ids' = ids
    /\ pos_slice_dict' = dict
    /\ sampling_distribution' = dist
    /\ classes' = IF BaseInitErr(dict, dist) = "none"
                  THEN log_class_indices(dict) ELSE <<>>
    /\ num_pseudo_slices' = IF v = "pseudo" /\ BaseInitErr(dict, dist) = "none"
                            THEN n ELSE 0
    /\ ctorErr' = InitErr(v, dict, dist, n)
    /\ pc' = IF InitErr(v, dict, dist, n) = "none" THEN "ready" ELSE "failed"
    /\ UNCHANGED <<disk, last>>

---------------------------------------------------------------------------
(* __len__ and __getitem__                                                 *)

DatasetLen == Len(im_ids)

\* variant of ResolveCase that clamps an index past the end to the last case
ResolveCaseClamped(idx) ==
    IF Len(im_ids) = 0 \/ idx < 0 - Len(im_ids)
        THEN [err |-> "IndexError", case |-> ""]
    ELSE IF idx >= Len(im_ids) THEN [err |-> "none", case |-> im_ids[Len(im_ids)]]
    ELSE IF idx >= 0 THEN [err |-> "none", case |-> im_ids[idx + 1]]
    ELSE [err |-> "none", case |-> im_ids[Len(im_ids) + idx + 1]]

\* self.im_ids[idx], line 53: a negative idx counts from the end
ResolveCase(idx) ==
    IF idx >= 0 /\ idx < Len(im_ids)
        THEN [err |-> "none", case |-> im_ids[idx + 1]]
    ELSE IF idx < 0 /\ idx >= 0 - Len(im_ids)
        THEN [err |-> "none", case |-> im_ids[Len(im_ids) + idx + 1]]
    ELSE [err |-> "IndexError", case |-> ""]

\* x.float(), y.long() of lines 57-59
ToTensor(arr, dtype) == [shape |-> arr.shape, ch |-> arr.ch, dtype |-> dtype]

\* lines 54-59 for one outcome d of the draw inside load_slices
ItemForDraw(idx, case_raw, d) ==
    LET base == [NoCall EXCEPT !.op = "getitem", !.arg = idx, !.case = case_raw,
                               !.resolved = TRUE, !.cls = d.cls, !.idx = d.idx,
                               !.drawn = d.drawn]
    IN  IF d.err # "none" THEN [base EXCEPT !.err = d.err, !.ret = "raise"]
        ELSE LET r == LoadDrawn(case_raw, d.idx)
                 loaded == [base EXCEPT !.x = r.x, !.y = r.y, !.loads = r.loads,
                                        !.probes = r.probes]
             IN  IF r.err # "none" THEN [loaded EXCEPT !.err = r.err, !.ret = "raise"]
                 \* x, y = None
                 ELSE IF r.ret = "None"
                     THEN [loaded EXCEPT !.err = "TypeError(unpack None)",
                                         !.ret = "raise"]
                 ELSE [loaded EXCEPT !.ret = "pair",
                           !.item = <<ToTensor(r.x, "float32"),
                                      ToTensor(r.y, "int64")>>]

\* every outcome of dataset[idx]
getitem(idx) ==
    LET c == ResolveCase(idx)
    IN  IF c.err # "none"
            THEN {[NoCall EXCEPT !.op = "getitem", !.arg = idx, !.err = c.err,
                                 !.ret = "raise"]}
        ELSE {ItemForDraw(idx, c.case, d) : d \in get_slice_idx(c.case)}

GetItem(idx) ==
    /\ pc = "ready"
    /\ \E r \in getitem(idx) : last' = r
    /\ UNCHANGED <<disk, pc, ctorErr, variant, im_ids, pos_slice_dict,
                   sampling_distribution, classes, num_pseudo_slices>>

\* a direct call of dataset.get_slice_idx(case_raw)
GetSliceIdx(case_raw) ==
    /\ pc = "ready"
    /\ \E d \in get_slice_idx(case_raw) :
          last' = [NoCall EXCEPT !.op = "get_slice_idx", !.case = case_raw,
                                 !.resolved = TRUE, !.err = d.err, !.cls = d.cls,
                                 !.idx = d.idx, !.drawn = d.drawn,
                                 !.ret = IF d.err = "none" THEN "index" ELSE "raise"]
    /\ UNCHANGED <<disk, pc, ctorErr, variant, im_ids, pos_slice_dict,
                   sampling_distribution, classes, num_pseudo_slices>>

---------------------------------------------------------------------------
(* Inputs tried                                                            *)

CaseIds == {"case01", "case02", "ghost"}

Variants == {"single", "pseudo"}

Windows == (0 - 1)..MaxWindow

Indexes == (0 - (MaxIds + 1))..(MaxIds + 1)

SeqsUpTo(S, n) == UNION {[1..m -> S] : m \in 0..n}

IdLists == SeqsUpTo(CaseIds, MaxIds)

Entry(bg, kidney, tumor) ==
    <<[k |-> "bg", v |-> bg], [k |-> "kidney", v |-> kidney],
      [k |-> "tumor", v |-> tumor]>>

\* the catalog of the specification's concrete scenario
CatScenario == <<[k |-> "case01", v |-> Entry(<<0, 1, 2>>, <<5, 6>>, <<7>>)]>>

\* a second case with an empty class list and without the label "tumor"
CatRagged ==
    <<[k |-> "case01", v |-> Entry(<<0, 1>>, <<2>>, <<3>>)],
      [k |-> "case02", v |-> <<[k |-> "bg", v |-> <<1>>],
                               [k |-> "kidney", v |-> <<>>]>>]>>

\* the first entry has two labels only
CatTwoLabels ==
    <<[k |-> "case02", v |-> <<[k |-> "bg", v |-> <<0>>],
                               [k |-> "kidney", v |-> <<1, 2>>]>>],
      [k |-> "case01", v |-> Entry(<<3>>, <<0, 1>>, <<2>>)]>>

Catalogs == {<<>>, CatScenario, CatRagged, CatTwoLabels}

Dists == [1..2 -> (0 - 1)..ProbSteps] \cup [1..3 -> (0 - 1)..ProbSteps]

SliceIds == 0..MaxSlice

FilesOf(case_raw) ==
    {SavedFile(case_raw, base, n) : base \in {"imaging", "segmentation"},
                                   n \in SliceIds}

FullDisk == FilesOf("case01") \cup FilesOf("case02")

\* one case whose catalog lists every saved slice
CatVolume ==
    <<[k |-> "case01",
       v |-> Entry(<<0>>, [i \in 1..(MaxSlice - 1) |-> i], <<MaxSlice>>)]>>

VolumeDists == {<<ProbSteps - 1, 1, 0>>, <<0, 1, ProbSteps - 1>>}

---------------------------------------------------------------------------
(* Specifications                                                          *)

InitWith(d) ==
    /\ disk = d
    /\ pc = "new"
    /\ ctorErr = "none"
    /\ variant = "single"
    /\ im_ids = <<>>
    /\ pos_slice_dict = <<>>
    /\ sampling_distribution = <<>>
    /\ classes = <<>>
    /\ num_pseudo_slices = 0
    /\ last = NoCall

\* the configurations, on a complete storage
Init == InitWith(FullDisk)

DoConstruct ==
    /\ pc = "new"
    /\ \E v \in Variants, ids \in IdLists, dict \in Catalogs, dist \in Dists,
       n \in Windows : Construct(v, ids, dict, dist, n)

DoGetItem == pc = "ready" /\ \E idx \in Indexes : GetItem(idx)

DoGetSliceIdx == pc = "ready" /\ \E case_raw \in CaseIds : GetSliceIdx(case_raw)

Next == DoConstruct \/ DoGetItem \/ DoGetSliceIdx

Spec == Init /\ [][Next]_vars

\* the storage states, for one case and its catalog
InitStorage == \E d \in SUBSET FilesOf("case01") : InitWith(d)

DoConstructVolume ==
    /\ pc = "new"
    /\ \E v \in Variants, dist \in VolumeDists, n \in Windows :
        Construct(v, <<"case01">>, CatVolume, dist, n)

NextStorage == DoConstructVolume \/ DoGetItem \/ DoGetSliceIdx

SpecStorage == InitStorage /\ [][NextStorage]_vars

---------------------------------------------------------------------------
(* Properties                                                              *)

Loaded == last.op = "getitem" /\ last.drawn

\* one non-negative probability per class label
ValidDistribution ==
    /\ Len(sampling_distribution) = Len(classes)
    /\ \A i \in DOMAIN sampling_distribution : sampling_distribution[i] >= 0

\* the case has a non-empty list for every class label
ListsNonEmpty(case_raw) ==
    /\ HasKey(pos_slice_dict, case_raw)
    /\ \A i \in DOMAIN classes :
          /\ HasKey(DictGet(pos_slice_dict, case_raw), classes[i])
          /\ Len(DictGet(DictGet(pos_slice_dict, case_raw), classes[i])) > 0

HalfWidth == (num_pseudo_slices - 1) \div 2

\* half-width of the slices a load may touch around the drawn index
ReadHalfWidth ==
    IF variant = "pseudo" /\ num_pseudo_slices > 1 THEN HalfWidth ELSE 0

OnDisk(case_raw, base, n) == n \in SliceIds /\ SavedFile(case_raw, base, n) \in disk

\* C1: with one non-negative probability per class and non-empty class lists,
\* every call of get_slice_idx(case) returns an index listed in
\* catalog[case][c] for a class c of positive probability, c being the drawn
\* class; with distribution [0,0,1] on the scenario catalog it returns 7.
C1_DrawInPositiveClass ==
    (pc = "ready" /\ ValidDistribution /\ last.op \in {"getitem", "get_slice_idx"}
        /\ last.resolved /\ ListsNonEmpty(last.case))
    => /\ last.drawn
       /\ \E i \in DOMAIN classes :
             /\ classes[i] = last.cls
             /\ sampling_distribution[i] > 0
             /\ last.idx \in Range(DictGet(DictGet(pos_slice_dict, last.case),
                                           classes[i]))
       /\ (pos_slice_dict = CatScenario
             /\ sampling_distribution = <<0, 0, ProbSteps>>)
          => (last.cls = "tumor" /\ last.idx = 7)

C1_Witness ==
    /\ pc = "ready"
    /\ pos_slice_dict = CatScenario
    /\ sampling_distribution = <<0, 0, ProbSteps>>
    /\ last.op = "get_slice_idx"
    /\ last.case = "case01"
    /\ last.idx = 7

\* C2 as stated: dataset[i] raises the out-of-range error exactly for the i
\* outside [0, len(dataset)), every negative i included.
C2_Original ==
    last.op = "getitem"
    => (last.err = "IndexError" <=> ~(0 <= last.arg /\ last.arg < DatasetLen))

\* C2 amended: dataset[i] raises the out-of-range error exactly for
\* i >= len(dataset) and for i < -len(dataset); for the other i it resolves
\* the case im_ids[i], a negative i counting from the end.
C2_IndexErrorOutsideSignedRange ==
    last.op = "getitem"
    => /\ last.err = "IndexError"
            <=> (last.arg >= DatasetLen \/ last.arg < 0 - DatasetLen)
       /\ last.err # "IndexError"
            => /\ last.resolved
               /\ last.case = im_ids[IF last.arg >= 0 THEN last.arg + 1
                                     ELSE DatasetLen + last.arg + 1]

C2_Witness ==
    /\ last.op = "getitem"
    /\ DatasetLen >= 1
    /\ last.arg = DatasetLen
    /\ last.err = "IndexError"

\* C3: a pseudo-volume load with num_pseudo_slices = n > 1 and center c that
\* returns has n channels, channel k being the saved image of slice
\* c - (n-1)/2 + k when that file exists and all-zero when it does not (also
\* below 0 and past the end of the volume); the load returns whenever the
\* two center files exist.
C3_WindowChannels ==
    (pc = "ready" /\ variant = "pseudo" /\ num_pseudo_slices > 1 /\ Loaded)
    => /\ (OnDisk(last.case, "imaging", last.idx)
             /\ OnDisk(last.case, "segmentation", last.idx))
          => last.ret = "pair"
       /\ last.ret = "pair"
          => /\ Len(last.x.ch) = num_pseudo_slices
             /\ last.x.shape = Shape2D \o <<num_pseudo_slices>>
             /\ \A k \in 0..(num_pseudo_slices - 1) :
                   last.x.ch[k + 1] =
                       IF OnDisk(last.case, "imaging", last.idx - HalfWidth + k)
                       THEN SavedArray(last.case, "imaging",
                                       last.idx - HalfWidth + k).px
                       ELSE ZeroPx

\* a window of 5 at the start of the volume: two channels are zero-filled
C3_Witness ==
    /\ pc = "ready"
    /\ variant = "pseudo"
    /\ num_pseudo_slices = 5
    /\ Loaded
    /\ last.ret = "pair"
    /\ last.idx = 0
    /\ last.x.ch[1] = ZeroPx /\ last.x.ch[2] = ZeroPx
    /\ \A k \in 3..5 : last.x.ch[k] = SavedArray(last.case, "imaging", k - 3).px

\* C4 as stated: a pseudo-volume dataset is constructed, given a valid
\* distribution, exactly when num_pseudo_slices is odd and >= 1.
C4_Original ==
    (pc # "new" /\ variant = "pseudo"
        /\ ctorErr \notin {"AssertionError(sampling_distribution)",
                           "IndexError(list index)"})
    => (pc = "ready" <=> (num_pseudo_slices % 2 = 1 /\ num_pseudo_slices >= 1))

\* C5: __init__ of either class raises the distribution error exactly when
\* the probabilities do not sum to 1, before any draw; with a sum of 1 and a
\* non-empty catalog the construction succeeds (for the pseudo-volume class,
\* with its own check of num_pseudo_slices passed).
C5_SumChecked ==
    pc # "new"
    => /\ SeqSum(sampling_distribution) # ProbSteps
            => /\ pc = "failed"
               /\ ctorErr = "AssertionError(sampling_distribution)"
               /\ last = NoCall
       /\ SeqSum(sampling_distribution) = ProbSteps
            => /\ ctorErr # "AssertionError(sampling_distribution)"
               /\ (Len(pos_slice_dict) > 0
                     /\ (variant = "pseudo" => num_pseudo_slices % 2 = 1))
                  => pc = "ready"

C5_Witness ==
    /\ pc = "failed"
    /\ SeqSum(sampling_distribution) = ProbSteps - 1
    /\ \A i \in DOMAIN sampling_distribution : sampling_distribution[i] >= 0
    /\ Len(pos_slice_dict) > 0

\* C6 as stated: every constructed dataset has exactly one probability per
\* class label, each in [0, 1], and no draw fails because of the distribution.
C6_Original ==
    pc = "ready"
    => /\ Len(sampling_distribution) = Len(classes)
       /\ \A i \in DOMAIN sampling_distribution :
             sampling_distribution[i] >= 0 /\ sampling_distribution[i] <= ProbSteps
       /\ last.err \notin {"ValueError(a and p size)", "ValueError(p negative)",
                           "ValueError(p sum)"}

\* C7: the pseudo-volume load with num_pseudo_slices = 1 and the single-slice
\* load return the same pair, or raise the same error, for the same case,
\* drawn index and storage.
C7_WindowOfOneIsSingle ==
    (pc = "ready" /\ Loaded)
    => /\ (variant = "pseudo" /\ num_pseudo_slices = 1)
          => LET r == SingleLoad(last.case, last.idx)
             IN  /\ last.x = r.x /\ last.y = r.y
                 /\ last.err = r.err /\ last.ret = r.ret
       /\ variant = "single"
          => LET r == PseudoLoad(last.case, last.idx, 1)
             IN  /\ last.x = r.x /\ last.y = r.y
                 /\ last.err = r.err /\ last.ret = r.ret

C7_Witness ==
    /\ pc = "ready"
    /\ variant = "pseudo"
    /\ num_pseudo_slices = 1
    /\ Loaded
    /\ last.ret = "pair"
    /\ last.x.shape = Shape2D \o <<1>>

\* C8: a load raises the storage error and returns nothing whenever the image
\* file or the segmentation file of the drawn index is missing, in both
\* classes and for every num_pseudo_slices, whatever neighbours exist; with
\* both center files present no load raises the storage error.
C8_CenterRequired ==
    (pc = "ready" /\ Loaded)
    => IF OnDisk(last.case, "imaging", last.idx)
             /\ OnDisk(last.case, "segmentation", last.idx)
       THEN last.err # "FileNotFoundError"
       ELSE /\ last.err = "FileNotFoundError"
            /\ last.ret = "raise"
            /\ last.x = NoArray /\ last.y = NoArray /\ last.item = <<>>

\* a window of 3 whose neighbours and center image exist, center mask missing
C8_Witness ==
    /\ pc = "ready"
    /\ variant = "pseudo"
    /\ num_pseudo_slices = 3
    /\ Loaded
    /\ \A j \in (last.idx - 1)..(last.idx + 1) : OnDisk(last.case, "imaging", j)
    /\ ~OnDisk(last.case, "segmentation", last.idx)
    /\ last.err = "FileNotFoundError"

\* C9: in a returned pair the mask is the saved segmentation of the drawn
\* slice of the case, and the image channel at position (n-1)/2 (the only
\* channel of the single-slice class) is the saved image of that same slice;
\* the only segmentation file read is that of the drawn index, and every file
\* touched belongs to the window around that one index.
C9_MaskOfCenter ==
    (pc = "ready" /\ Loaded)
    => /\ last.ret = "pair"
          => /\ last.y.ch = <<SavedArray(last.case, "segmentation", last.idx).px>>
             /\ last.x.ch[IF variant = "single" THEN 1 ELSE HalfWidth + 1]
                    = SavedArray(last.case, "imaging", last.idx).px
       /\ \A i \in DOMAIN last.loads :
             /\ last.loads[i].dir = last.case
             /\ last.loads[i].base = "segmentation"
                   => last.loads[i].idx = parse_slice_idx_to_str(last.idx)
       /\ \A i \in DOMAIN last.probes : last.probes[i].base = "imaging"
       /\ \A path \in Range(last.loads) \cup Range(last.probes) :
             \E j \in (last.idx - ReadHalfWidth)..(last.idx + ReadHalfWidth) :
                 path.idx = parse_slice_idx_to_str(j)
       /\ Cardinality({i \in DOMAIN last.loads :
                          last.loads[i].base = "segmentation"}) <= 1

\* a window of 3 returned while the masks of both neighbours are on disk
C9_Witness ==
    /\ pc = "ready"
    /\ variant = "pseudo"
    /\ num_pseudo_slices = 3
    /\ Loaded
    /\ last.ret = "pair"
    /\ OnDisk(last.case, "segmentation", last.idx - 1)
    /\ OnDisk(last.case, "segmentation", last.idx + 1)

\* the drawn class has no slice index recorded for the case
NoIndicesFor(case_raw, cls) ==
    \/ ~HasKey(DictGet(pos_slice_dict, case_raw), cls)
    \/ Len(DictGet(DictGet(pos_slice_dict, case_raw), cls)) = 0

LookupErrors == {"KeyError(case)", "KeyError(class)", "ValueError(a empty)"}

\* C10 as stated: an access raises a lookup error at sampling time, before
\* any storage read, whenever its case is absent from the catalog or the
\* drawn class has no slice index recorded for the case.
C10_Original ==
    (pc = "ready" /\ last.op = "getitem" /\ last.resolved)
    => ((~HasKey(pos_slice_dict, last.case)
            \/ (last.cls # "" /\ NoIndicesFor(last.case, last.cls)))
        => /\ last.err \in LookupErrors
           /\ last.ret = "raise"
           /\ last.loads = <<>> /\ last.probes = <<>>)

\* C10 on the datasets whose distribution np.random.choice accepts
C10_WithValidDistribution == ValidDistribution => C10_Original

=============================================================================
